---- MODULE Spec2Model ----
(***************************************************************************)
(* HydraDancer host controller (host-controller/main.c): the BBIO frame    *)
(* senders, the descriptor upload, the ROT13 echo exchange, the log poll,  *)
(* and main()'s menu loop, over a libusb bulk transport whose results are  *)
(* chosen by the environment.                                              *)
(*                                                                         *)
(* A step of the model is one libusb_bulk_transfer call together with the  *)
(* code that follows it up to the next transfer (or the function's return).*)
(* Bytes are integers 0..255; the transfer buffer is the sequence of its   *)
(* BufferSize bytes, so that C's buffer[i] is buffer[i + 1] here.          *)
(***************************************************************************)
EXTENDS Integers, Sequences, FiniteSets, TLC

(* ------------------------------------------------------------------ *)
(* macros and enums                                                     *)
(* ------------------------------------------------------------------ *)
USB20_EP1_MAX_SIZE == 512
BufferSize == 4096
UINT16_MAX == 65535
MaxIndex == 16
INTERFACE == 1
ClaimedInterface == 0
EP1OUT == 1
EP1IN == 129
EP_DEBUG == 135
BbioMainMode == 0
BbioIdentifMode == 1
BbioSetDescr == 2
BbioSubSetDescrDevice == 1
BbioSubSetDescrConfig == 2
BbioSubSetDescrInterface == 3
BbioSubSetDescrEndpoint == 4
BbioSubSetDescrString == 5
CommandByte == 55

BbioCommand == {BbioMainMode, BbioIdentifMode, BbioSetDescr}
BbioSubCommand == {BbioSubSetDescrDevice, BbioSubSetDescrConfig,
                   BbioSubSetDescrInterface, BbioSubSetDescrEndpoint,
                   BbioSubSetDescrString}

(* ------------------------------------------------------------------ *)
(* bounds of the model                                                  *)
(* ------------------------------------------------------------------ *)
\* reads one echo exchange may issue before the model stops following it
MaxReads == 2
\* menu choices main() handles before the model stops following it
MaxActions == 2
\* length of the short texts the device and the user produce
TextLen == 3

(* ------------------------------------------------------------------ *)
(* C arithmetic                                                         *)
(* ------------------------------------------------------------------ *)
\* C's / and % truncate toward zero
CDiv(a, b) == IF a >= 0 THEN a \div b ELSE -((-a) \div b)
CRem(a, b) == a - b * CDiv(a, b)
\* conversion of an int to unsigned char
ToU8(x) == x % 256

(* ------------------------------------------------------------------ *)
(* state                                                                *)
(* ------------------------------------------------------------------ *)
VARIABLES
    pc,               \* the position of the (single) thread of control
    stack,            \* return positions of the calls in progress
    buffer,           \* main()'s unsigned char buffer[4096]
    capBuffer,        \* parameter of usb_log_print / usb_bulk_rot13
    bbioCommand,      \* parameters of the bbio_* senders and usb_descriptor_set
    bbioSubCommand,
    indexDescriptor,
    sizeDescriptor,
    descriptor,       \* the descriptor table usb_descriptor_set points at
    g_deviceHandle,   \* "NULL", "open", or "closed" (dangling after libusb_close)
    libusb,           \* the library context: "none", "init", "exited"
    claimed,          \* interface numbers currently claimed on the handle
    io,               \* bulk transfers issued in the current exchange, in order
    out,              \* what the current exchange printed on stdout, in order
    userChoice,       \* main()'s last menu choice
    nActions,         \* menu choices handled so far (bounded by MaxActions)
    entry,            \* the function under way: "main", or the one called alone
    echoAfter         \* the transport: -1 answers reads freely; N >= 0 accepts
                      \* every write and echoes the last one after N empty reads

vars == <<pc, stack, buffer, capBuffer, bbioCommand, bbioSubCommand,
          indexDescriptor, sizeDescriptor, descriptor, g_deviceHandle,
          libusb, claimed, io, out, userChoice, nActions, entry, echoAfter>>

argVars == <<bbioCommand, bbioSubCommand, indexDescriptor, sizeDescriptor, descriptor>>
usbVars == <<g_deviceHandle, libusb, claimed>>
envVars == <<userChoice, nActions, entry, echoAfter>>

ZeroBuffer == [i \in 1 .. BufferSize |-> 0]

(* ------------------------------------------------------------------ *)
(* the transport (libusb_bulk_transfer), as the environment             *)
(* ------------------------------------------------------------------ *)
\* one issued transfer: endpoint, requested length, the bytes moved, result
Xfer(ep, len, data, rc) == [ep |-> ep, len |-> len, data |-> data, rc |-> rc]

\* The results a transfer can have. On a handle that is not open (NULL, or
\* dangling after libusb_close) the call is undefined: it faults or fails.
TransferResults ==
    IF g_deviceHandle = "open" THEN {"ok", "fail"} ELSE {"fail", "crash"}

\* the results of a write: the echoing transport accepts every write
WriteResults == IF echoAfter >= 0 THEN {"ok"} ELSE TransferResults

\* the first len bytes at a buffer, as the bytes a write moves
BytesOf(buf, len) == SubSeq(buf, 1, len)

\* a buffer after a read moved data into its start
Received(buf, data) == data \o SubSeq(buf, Len(data) + 1, Len(buf))

\* memset left out
Memset0_none(buf, cap) == buf

\* memset(buffer, 0, cap)
Memset0(buf, cap) == SubSeq(ZeroBuffer, 1, cap) \o SubSeq(buf, cap + 1, Len(buf))

\* the terminator written one byte early
Terminated_early(buf, cap) == [buf EXCEPT ![cap - 1] = 0]

\* buffer[cap-1] = 0
Terminated(buf, cap) == [buf EXCEPT ![cap] = 0]

\* the C string at the start of a buffer whose byte cap-1 is zero: the
\* bytes before the first zero byte (what printf("%s") prints)
StrLen(buf, cap) ==
    CHOOSE k \in 0 .. (cap - 1) : buf[k + 1] = 0 /\ \A j \in 1 .. k : buf[j] # 0
CStr(buf, cap) == BytesOf(buf, StrLen(buf, cap))

Return == /\ pc' = Head(stack)
          /\ stack' = Tail(stack)

\* a transfer on an invalid handle that faults ends the process
Crash == /\ pc' = "crashed"
         /\ UNCHANGED stack

\* assert() failed: abort()
Abort == /\ pc' = "aborted"
         /\ UNCHANGED stack

(* ------------------------------------------------------------------ *)
(* bbio_command_send                                                    *)
(* ------------------------------------------------------------------ *)
\* the safeguards without the assert() on the buffer capacity
Safeguards_no_capacity(index, size) ==
    /\ index <= MaxIndex
    /\ size <= UINT16_MAX

\* the three assert()s shared by both senders
Safeguards(index, size) ==
    /\ index <= MaxIndex
    /\ size <= UINT16_MAX
    /\ size <= USB20_EP1_MAX_SIZE

\* bbioBuffer[0] = 0x37
CommandFrame(command) == <<CommandByte>>

bbio_command_send ==
    /\ pc = "bbio_command_send"
    /\ IF ~Safeguards(indexDescriptor, sizeDescriptor)
       THEN /\ Abort
            /\ UNCHANGED <<io, out>>
       ELSE \E rc \in WriteResults :
              /\ io' = Append(io, Xfer(EP1OUT, 1, CommandFrame(bbioCommand), rc))
              /\ IF rc = "crash"
                 THEN Crash /\ UNCHANGED out
                 ELSE /\ Return
                      /\ out' = IF rc = "fail"
                                THEN Append(out, [fn |-> "bbio_command_send", err |-> TRUE, text |-> <<>>])
                                ELSE out
    /\ UNCHANGED <<buffer, capBuffer, argVars, usbVars, envVars>>

(* ------------------------------------------------------------------ *)
(* bbio_command_sub_send                                                *)
(* ------------------------------------------------------------------ *)
\* the frame with the two length bytes in the other order
SubFrame_big_endian(command, subCommand, index, size) ==
    << ToU8(command), ToU8(subCommand), ToU8(index),
       ToU8(CDiv(size, 256)), ToU8(CRem(size, 256)) >>

SubFrame(command, subCommand, index, size) ==
    << ToU8(command), ToU8(subCommand), ToU8(index),
       ToU8(CRem(size, 256)), ToU8(CDiv(size, 256)) >>

\* the sender ending the process when the transfer fails
bbio_command_sub_send_exit_on_error ==
    /\ pc = "bbio_command_sub_send"
    /\ Safeguards(indexDescriptor, sizeDescriptor)
    /\ \E rc \in WriteResults :
         /\ io' = Append(io, Xfer(EP1OUT, 5,
                     SubFrame(bbioCommand, bbioSubCommand, indexDescriptor, sizeDescriptor), rc))
         /\ IF rc = "ok" THEN Return ELSE pc' = "exited" /\ UNCHANGED stack
         /\ out' = out
    /\ UNCHANGED <<buffer, capBuffer, argVars, usbVars, envVars>>

bbio_command_sub_send ==
    /\ pc = "bbio_command_sub_send"
    /\ IF ~Safeguards(indexDescriptor, sizeDescriptor)
       THEN /\ Abort
            /\ UNCHANGED <<io, out>>
       ELSE \E rc \in WriteResults :
              /\ io' = Append(io, Xfer(EP1OUT, 5,
                          SubFrame(bbioCommand, bbioSubCommand, indexDescriptor, sizeDescriptor), rc))
              /\ IF rc = "crash"
                 THEN Crash /\ UNCHANGED out
                 ELSE /\ Return
                      /\ out' = IF rc = "fail"
                                THEN Append(out, [fn |-> "bbio_command_sub_send", err |-> TRUE, text |-> <<>>])
                                ELSE out
    /\ UNCHANGED <<buffer, capBuffer, argVars, usbVars, envVars>>

(* ------------------------------------------------------------------ *)
(* usb_descriptor_set                                                   *)
(* ------------------------------------------------------------------ *)
\* byte i (from 0) of descriptor table d
DescriptorByte(d, i) == (d * 31 + i * 7) % 256

\* the size bytes at the descriptor pointer
Payload(d, size) == [i \in 1 .. size |-> DescriptorByte(d, i - 1)]

\* the call passing on whatever command was last used
usb_descriptor_set_call_any_command ==
    /\ pc = "usb_descriptor_set"
    /\ pc' = "bbio_command_sub_send"
    /\ stack' = <<"usb_descriptor_set_payload">> \o stack
    /\ UNCHANGED <<buffer, capBuffer, argVars, usbVars, io, out, envVars>>

\* bbio_command_sub_send(BbioSetDescr, bbioSubCommand, indexDescriptor, sizeDescriptor)
usb_descriptor_set_call ==
    /\ pc = "usb_descriptor_set"
    /\ bbioCommand' = BbioSetDescr
    /\ pc' = "bbio_command_sub_send"
    /\ stack' = <<"usb_descriptor_set_payload">> \o stack
    /\ UNCHANGED <<buffer, capBuffer, bbioSubCommand, indexDescriptor,
                   sizeDescriptor, descriptor, usbVars, io, out, envVars>>

\* the payload step giving up when the frame was not sent
usb_descriptor_set_payload_unless_failed ==
    /\ pc = "usb_descriptor_set_payload"
    /\ \E rc \in WriteResults :
         /\ io' = IF io[Len(io)].rc = "fail" THEN io
                  ELSE Append(io, Xfer(EP1OUT, sizeDescriptor, Payload(descriptor, sizeDescriptor), rc))
         /\ out' = out
         /\ Return
    /\ UNCHANGED <<buffer, capBuffer, argVars, usbVars, envVars>>

\* libusb_bulk_transfer(g_deviceHandle, EP1OUT, descriptor, sizeDescriptor, NULL, 0)
usb_descriptor_set_payload ==
    /\ pc = "usb_descriptor_set_payload"
    /\ \E rc \in (IF sizeDescriptor < 0 THEN WriteResults \ {"ok"} ELSE WriteResults) :
         /\ io' = Append(io, Xfer(EP1OUT, sizeDescriptor, Payload(descriptor, sizeDescriptor), rc))
         /\ IF rc = "crash"
            THEN Crash /\ UNCHANGED out
            ELSE /\ Return
                 /\ out' = IF rc = "fail"
                           THEN Append(out, [fn |-> "usb_descriptor_set", err |-> TRUE, text |-> <<>>])
                           ELSE out
    /\ UNCHANGED <<buffer, capBuffer, argVars, usbVars, envVars>>

(* ------------------------------------------------------------------ *)
(* what the device answers to a read                                    *)
(* ------------------------------------------------------------------ *)
Reads(log) == SelectSeq(log, LAMBDA x : x.ep \in {EP1IN, EP_DEBUG})

\* the bytes of the last write the device accepted
LastWritten(log) ==
    LET w == SelectSeq(log, LAMBDA x : x.ep = EP1OUT /\ x.rc = "ok")
    IN IF w = <<>> THEN <<>> ELSE w[Len(w)].data

Truncated(data, len) == IF Len(data) <= len THEN data ELSE SubSeq(data, 1, len)

NoData == <<>>
Zeros == [i \in 1 .. TextLen |-> 0]
Text == [i \in 1 .. TextLen |-> 96 + i]
\* a text with a zero byte inside it
Holed == [i \in 1 .. TextLen |-> IF i = 2 THEN 0 ELSE 103 + i]
\* a zero first byte with text behind it
Late == [i \in 1 .. TextLen |-> IF i = 1 THEN 0 ELSE 111 + i]
\* as many non-zero bytes as the read asks for
FullBuffer == [i \in 1 .. BufferSize |-> 65]
Full(len) == SubSeq(FullBuffer, 1, len)

\* The (result, data) pairs a read of len bytes can have. A read that fails
\* may still have moved bytes. The echoing transport answers its first
\* echoAfter reads with nothing (failing or not) and every later read with
\* the last write. Under main() the answers are drawn from a smaller set
\* than when a function is called alone.
ReadOutcomes(len, log) ==
    IF echoAfter >= 0
    THEN IF Len(Reads(log)) < echoAfter
         THEN {<<"fail", NoData>>, <<"ok", NoData>>, <<"ok", Truncated(Zeros, len)>>}
         ELSE {<<"ok", Truncated(LastWritten(log), len)>>}
    ELSE IF g_deviceHandle # "open"
         THEN {<<"fail", NoData>>, <<"crash", NoData>>}
         ELSE IF entry = "main"
         THEN {<<"ok", NoData>>, <<"ok", Text>>, <<"fail", NoData>>}
         ELSE {<<"ok", Truncated(d, len)>> :
                  d \in {NoData, Zeros, Text, Holed, Late, Full(len), LastWritten(log)}}
              \cup {<<"fail", Truncated(d, len)>> : d \in {NoData, Text}}

\* The transfers of an exchange the model keeps: the write and the first
\* MaxReads reads, then one mark that later reads were left out. The mark's
\* len is the parity of their number, so that every read is a step.
Dropped == [ep |-> 0, len |-> 1, data |-> <<>>, rc |-> "dropped"]
Logged(log, x) ==
    IF Len(Reads(log)) < MaxReads THEN Append(log, x)
    ELSE IF log[Len(log)].rc = "dropped"
         THEN [log EXCEPT ![Len(log)].len = 1 - @]
         ELSE Append(log, Dropped)

(* ------------------------------------------------------------------ *)
(* usb_log_print                                                        *)
(* ------------------------------------------------------------------ *)
\* the printing done without looking at retCode
LogPrinted_any_result(b, cap, rc) ==
    IF b[1] # 0
    THEN <<[fn |-> "usb_log_print", err |-> FALSE, text |-> CStr(b, cap)]>>
    ELSE <<>>

\* what usb_log_print prints for the buffer b it has after the read and
\* the terminator
LogPrinted(b, cap, rc) ==
    IF rc = "ok"
    THEN IF b[1] # 0
         THEN <<[fn |-> "usb_log_print", err |-> FALSE, text |-> CStr(b, cap)]>>
         ELSE <<>>
    ELSE <<[fn |-> "usb_log_print", err |-> TRUE, text |-> <<>>]>>

usb_log_print ==
    /\ pc = "usb_log_print"
    /\ \E o \in ReadOutcomes(capBuffer, io) :
         LET rc == o[1]
             b  == Terminated(Received(buffer, o[2]), capBuffer)
         IN /\ io' = Append(io, Xfer(EP_DEBUG, capBuffer, o[2], rc))
            /\ IF rc = "crash"
               THEN Crash /\ UNCHANGED <<buffer, out>>
               ELSE /\ out' = out \o LogPrinted(b, capBuffer, rc)
                    /\ buffer' = Memset0(b, capBuffer)
                    /\ Return
    /\ UNCHANGED <<capBuffer, argVars, usbVars, envVars>>

(* ------------------------------------------------------------------ *)
(* usb_bulk_rot13                                                       *)
(* ------------------------------------------------------------------ *)
\* an error message of the loop is kept while its read is
Rot13Error(o, log, rc) ==
    IF rc = "fail" /\ Len(Reads(log)) < MaxReads
    THEN Append(o, [fn |-> "usb_bulk_rot13", err |-> TRUE, text |-> <<>>])
    ELSE o

\* the loop run as if it were a single pass: print and return whatever b holds
Rot13Test_once(b, o) ==
    /\ out' = Append(o, [fn |-> "usb_bulk_rot13", err |-> FALSE, text |-> CStr(b, capBuffer)])
    /\ Return

\* The loop test while (buffer[0] == 0) on buffer b, with o printed so far:
\* back to the read, or printf("%s\n", buffer) and the return.
Rot13Test(b, o) ==
    IF b[1] = 0
    THEN /\ pc' = "usb_bulk_rot13_read"
         /\ out' = o
         /\ UNCHANGED stack
    ELSE /\ out' = Append(o, [fn |-> "usb_bulk_rot13", err |-> FALSE, text |-> CStr(b, capBuffer)])
         /\ Return

\* the send, the memset, and the first loop test
usb_bulk_rot13_send ==
    /\ pc = "usb_bulk_rot13"
    /\ \E rc \in WriteResults :
         /\ io' = Append(io, Xfer(EP1OUT, capBuffer, BytesOf(buffer, capBuffer), rc))
         /\ IF rc = "crash"
            THEN Crash /\ UNCHANGED <<buffer, out>>
            ELSE /\ buffer' = Memset0(Terminated(buffer, capBuffer), capBuffer)
                 /\ Rot13Test(buffer', IF rc = "fail"
                                       THEN Append(out, [fn |-> "usb_bulk_rot13", err |-> TRUE, text |-> <<>>])
                                       ELSE out)
    /\ UNCHANGED <<capBuffer, argVars, usbVars, envVars>>

\* one iteration of the loop: the read, the terminator, the next loop test
usb_bulk_rot13_read ==
    /\ pc = "usb_bulk_rot13_read"
    /\ \E o \in ReadOutcomes(capBuffer, io) :
         LET rc == o[1]
         IN /\ io' = Logged(io, Xfer(EP1IN, capBuffer, o[2], rc))
            /\ IF rc = "crash"
               THEN Crash /\ UNCHANGED <<buffer, out>>
               ELSE /\ buffer' = Terminated(Received(buffer, o[2]), capBuffer)
                    /\ Rot13Test(buffer', Rot13Error(out, io, rc))
    /\ UNCHANGED <<capBuffer, argVars, usbVars, envVars>>

(* ------------------------------------------------------------------ *)
(* each function called alone, with its arguments drawn from small sets *)
(* ------------------------------------------------------------------ *)
Garbage == [i \in 1 .. BufferSize |-> 170]
\* a line of TextLen characters and its newline, as fgets() stores it, over
\* a buffer holding fill
Line == [i \in 1 .. TextLen + 2 |-> IF i <= TextLen THEN 96 + i
                                   ELSE IF i = TextLen + 1 THEN 10 ELSE 0]
InitBuffers == {ZeroBuffer, Garbage, Received(ZeroBuffer, Line), Received(Garbage, Line)}

CapBuffers == {USB20_EP1_MAX_SIZE, BufferSize}
Indexes == {-1, 0, 3, MaxIndex, MaxIndex + 1}
Sizes == {-300, -1, 0, 18, 300, USB20_EP1_MAX_SIZE,
          USB20_EP1_MAX_SIZE + 1, UINT16_MAX, UINT16_MAX + 1}
Descriptors == {1, 2}

InitCommon ==
    /\ stack = <<>>
    /\ capBuffer = 0
    /\ bbioCommand = 0
    /\ bbioSubCommand = 0
    /\ indexDescriptor = 0
    /\ sizeDescriptor = 0
    /\ descriptor = 0
    /\ io = <<>>
    /\ out = <<>>
    /\ nActions = 0
    /\ userChoice = 0

InitUnit ==
    /\ InitCommon
    /\ pc = "entry"
    /\ entry = "none"
    /\ buffer = ZeroBuffer
    /\ g_deviceHandle = "open"
    /\ libusb = "init"
    /\ claimed = {ClaimedInterface}
    /\ echoAfter = -1

Enter(fn) ==
    /\ pc = "entry"
    /\ pc' = fn
    /\ entry' = fn
    /\ stack' = <<"done">>
    /\ UNCHANGED <<usbVars, io, out, userChoice, nActions, echoAfter>>

Enter_bbio_command_send ==
    /\ Enter("bbio_command_send")
    /\ bbioCommand' \in BbioCommand
    /\ indexDescriptor' \in Indexes
    /\ sizeDescriptor' \in Sizes
    /\ UNCHANGED <<buffer, capBuffer, bbioSubCommand, descriptor>>

Enter_bbio_command_sub_send ==
    /\ Enter("bbio_command_sub_send")
    /\ bbioCommand' \in BbioCommand
    /\ bbioSubCommand' \in BbioSubCommand
    /\ indexDescriptor' \in Indexes
    /\ sizeDescriptor' \in Sizes
    /\ UNCHANGED <<buffer, capBuffer, descriptor>>

Enter_usb_descriptor_set ==
    /\ Enter("usb_descriptor_set")
    /\ bbioSubCommand' \in BbioSubCommand
    /\ indexDescriptor' \in Indexes
    /\ sizeDescriptor' \in Sizes
    /\ descriptor' \in Descriptors
    /\ UNCHANGED <<buffer, capBuffer, bbioCommand>>

Enter_usb_log_print ==
    /\ Enter("usb_log_print")
    /\ capBuffer' \in CapBuffers
    /\ buffer' \in InitBuffers
    /\ UNCHANGED argVars

Enter_usb_bulk_rot13 ==
    /\ Enter("usb_bulk_rot13")
    /\ capBuffer' \in CapBuffers
    /\ buffer' \in InitBuffers
    /\ UNCHANGED argVars

NextUnit ==
    \/ Enter_bbio_command_send
    \/ Enter_bbio_command_sub_send
    \/ Enter_usb_descriptor_set
    \/ Enter_usb_log_print
    \/ Enter_usb_bulk_rot13
    \/ bbio_command_send
    \/ bbio_command_sub_send
    \/ usb_descriptor_set_call
    \/ usb_descriptor_set_payload
    \/ usb_log_print
    \/ usb_bulk_rot13_send
    \/ usb_bulk_rot13_read

SpecUnit == InitUnit /\ [][NextUnit]_vars

\* usb_bulk_rot13 called alone against the echoing transport
InitEcho ==
    /\ InitCommon
    /\ pc = "entry"
    /\ entry = "none"
    /\ buffer \in InitBuffers
    /\ g_deviceHandle = "open"
    /\ libusb = "init"
    /\ claimed = {ClaimedInterface}
    /\ echoAfter \in 0 .. (MaxReads - 1)

NextEcho ==
    \/ Enter_usb_bulk_rot13
    \/ usb_bulk_rot13_send
    \/ usb_bulk_rot13_read

\* the blocking calls return and the thread runs on
SpecEcho == InitEcho /\ [][NextEcho]_vars /\ WF_vars(NextEcho)

(* ------------------------------------------------------------------ *)
(* usb_init_verbose, usb_close, handler_sigint                          *)
(* ------------------------------------------------------------------ *)
\* usb_init_verbose(), a step for each libusb call that can fail. main()
\* drops the return value, so every return goes on to the menu.
\* libusb_init(NULL); on failure return 1
usb_init_libusb ==
    /\ pc = "usb_init_verbose"
    /\ \E ok \in BOOLEAN :
         /\ libusb' = IF ok THEN "init" ELSE "none"
         /\ pc' = IF ok THEN "usb_init_open" ELSE "menu"
    /\ UNCHANGED <<stack, buffer, capBuffer, argVars, g_deviceHandle, claimed,
                   io, out, envVars>>

\* libusb_open_device_with_vid_pid(); on NULL libusb_exit(NULL), return 2
usb_init_open ==
    /\ pc = "usb_init_open"
    /\ \E ok \in BOOLEAN :
         /\ g_deviceHandle' = IF ok THEN "open" ELSE "NULL"
         /\ libusb' = IF ok THEN libusb ELSE "exited"
         /\ pc' = IF ok THEN "usb_init_claim" ELSE "menu"
    /\ UNCHANGED <<stack, buffer, capBuffer, argVars, claimed, io, out, envVars>>

\* libusb_set_auto_detach_kernel_driver(g_deviceHandle, INTERFACE), whose
\* second argument is the enable flag; libusb_claim_interface(g_deviceHandle, 0);
\* on failure libusb_close(), libusb_exit(NULL), return 3; else return 0
usb_init_claim ==
    /\ pc = "usb_init_claim"
    /\ \E ok \in BOOLEAN :
         /\ claimed' = IF ok THEN claimed \cup {ClaimedInterface} ELSE claimed
         /\ g_deviceHandle' = IF ok THEN g_deviceHandle ELSE "closed"
         /\ libusb' = IF ok THEN libusb ELSE "exited"
    /\ pc' = "menu"
    /\ UNCHANGED <<stack, buffer, capBuffer, argVars, io, out, envVars>>

\* usb_close(): release INTERFACE, close the handle, leave the library
UsbClose ==
    /\ claimed' = claimed \ {INTERFACE}
    /\ g_deviceHandle' = IF g_deviceHandle = "NULL" THEN "NULL" ELSE "closed"
    /\ libusb' = "exited"

\* where usb_close() leaves the process, going on to `next`: on a handle
\* that is not open the libusb calls are undefined and may fault
AfterClose(next) == IF g_deviceHandle = "open" THEN {next} ELSE {next, "crashed"}

Running == pc \notin {"entry", "done", "exited", "crashed", "aborted"}

\* SIGINT, at any point after signal() installed the handler: usb_close(),
\* exit(0). The interrupted thread never runs again.
handler_sigint ==
    /\ entry = "main"
    /\ Running
    /\ pc # "main"
    /\ UsbClose
    /\ pc' \in AfterClose("exited")
    /\ UNCHANGED <<stack, buffer, capBuffer, argVars, io, out, envVars>>

(* ------------------------------------------------------------------ *)
(* main                                                                 *)
(* ------------------------------------------------------------------ *)
\* sizeof of the descriptor tables of usb_descriptors.h
DescriptorSize(sub) ==
    CASE sub = BbioSubSetDescrDevice -> 18
      [] sub = BbioSubSetDescrConfig -> 9
      [] sub = BbioSubSetDescrInterface -> 9
      [] sub = BbioSubSetDescrEndpoint -> 7

\* fgets(buffer, n, stdin) reading line; end of file leaves the buffer alone
Min(a, b) == IF a <= b THEN a ELSE b
Fgets(buf, n, line) ==
    IF line = <<>> THEN buf
    ELSE LET k == Min(Len(line), n - 1)
         IN SubSeq(line, 1, k) \o <<0>> \o SubSeq(buf, k + 2, Len(buf))

\* what the user types: a short line, a line longer than the buffer takes,
\* an empty line, or end of file. The characters typed differ from the
\* bytes the device answers with (Text) and from the bytes of the
\* uninitialised buffer (Garbage), so that a byte in the buffer tells
\* where it came from.
ShortLine == [i \in 1 .. TextLen + 1 |-> IF i <= TextLen THEN 64 + i ELSE 10]
LongLine == [i \in 1 .. USB20_EP1_MAX_SIZE + 1 |-> 122]
\* the user only pressed Enter
EmptyLine == <<10>>
Lines == {ShortLine, LongLine, EmptyLine, <<>>}

InitMain ==
    /\ InitCommon
    /\ pc = "main"
    /\ entry = "main"
    /\ buffer \in {ZeroBuffer, Garbage}
    /\ g_deviceHandle = "NULL"
    /\ libusb = "none"
    /\ claimed = {}
    /\ echoAfter = -1

\* signal(SIGINT, handler_sigint); then usb_init_verbose() is called
main_signal ==
    /\ pc = "main"
    /\ pc' = "usb_init_verbose"
    /\ UNCHANGED <<stack, buffer, capBuffer, argVars, usbVars, io, out, envVars>>

\* usb_descriptor_set(sub, 0, g_descriptor..., sizeof(g_descriptor...)), then on to ret
CallDescriptorSet(sub, ret) ==
    /\ bbioSubCommand' = sub
    /\ indexDescriptor' = 0
    /\ descriptor' = sub
    /\ sizeDescriptor' = DescriptorSize(sub)
    /\ pc' = "usb_descriptor_set"
    /\ stack' = <<ret>>
    /\ UNCHANGED <<bbioCommand, buffer, capBuffer>>

\* menu_print(); userChoice = menu_get_input(); switch (userChoice)
main_menu ==
    /\ pc = "menu"
    /\ nActions < MaxActions
    /\ nActions' = nActions + 1
    /\ io' = <<>>
    /\ out' = <<>>
    /\ \E c \in {0, 1, 2, 3, 4, 9} :
         /\ userChoice' = c
         /\ CASE c = 1 -> /\ buffer' = Memset0(buffer, BufferSize)
                          /\ capBuffer' = BufferSize
                          /\ pc' = "usb_log_print"
                          /\ stack' = <<"case1_second">>
                          /\ UNCHANGED argVars
              [] c = 2 -> /\ pc' = "case2_loop"
                          /\ UNCHANGED <<stack, buffer, capBuffer, argVars>>
              [] c = 3 -> /\ \E line \in Lines :
                               buffer' = Fgets(buffer, USB20_EP1_MAX_SIZE, line)
                          /\ capBuffer' = USB20_EP1_MAX_SIZE
                          /\ pc' = "usb_bulk_rot13"
                          /\ stack' = <<"menu">>
                          /\ UNCHANGED argVars
              [] c = 4 -> CallDescriptorSet(BbioSubSetDescrDevice, "case4_config")
              [] c = 9 -> /\ pc' = "usb_close"
                          /\ UNCHANGED <<stack, buffer, capBuffer, argVars>>
              [] OTHER -> /\ pc' = "menu"
                          /\ UNCHANGED <<stack, buffer, capBuffer, argVars>>
    /\ UNCHANGED <<usbVars, entry, echoAfter>>

\* case 1: the second usb_log_print(buffer, capBuffer)
main_case1_second ==
    /\ pc = "case1_second"
    /\ pc' = "usb_log_print"
    /\ stack' = <<"menu">>
    /\ UNCHANGED <<buffer, capBuffer, argVars, usbVars, io, out, envVars>>

\* case 2: while (1) { usb_log_print(buffer, capBuffer); usleep(10000); }
main_case2_loop ==
    /\ pc = "case2_loop"
    /\ capBuffer' = BufferSize
    /\ pc' = "usb_log_print"
    /\ stack' = <<"case2_loop">>
    /\ io' = <<>>
    /\ out' = <<>>
    /\ UNCHANGED <<buffer, argVars, usbVars, envVars>>

\* the uploads after the first with Interface sent before Config
main_case4_next_swapped ==
    /\ \/ pc = "case4_config" /\ CallDescriptorSet(BbioSubSetDescrInterface, "case4_interface")
       \/ pc = "case4_interface" /\ CallDescriptorSet(BbioSubSetDescrConfig, "case4_endpoint")
       \/ pc = "case4_endpoint" /\ CallDescriptorSet(BbioSubSetDescrEndpoint, "menu")
    /\ UNCHANGED <<usbVars, io, out, envVars>>

\* case 4: the uploads after the first
main_case4_next ==
    /\ \/ pc = "case4_config" /\ CallDescriptorSet(BbioSubSetDescrConfig, "case4_interface")
       \/ pc = "case4_interface" /\ CallDescriptorSet(BbioSubSetDescrInterface, "case4_endpoint")
       \/ pc = "case4_endpoint" /\ CallDescriptorSet(BbioSubSetDescrEndpoint, "menu")
    /\ UNCHANGED <<usbVars, io, out, envVars>>

\* after the loop: usb_close()
main_usb_close ==
    /\ pc = "usb_close"
    /\ UsbClose
    /\ pc' \in AfterClose("main_return")
    /\ UNCHANGED <<stack, buffer, capBuffer, argVars, io, out, envVars>>

\* return 0
main_return ==
    /\ pc = "main_return"
    /\ pc' = "exited"
    /\ UNCHANGED <<stack, buffer, capBuffer, argVars, usbVars, io, out, envVars>>

Next ==
    \/ main_signal
    \/ usb_init_libusb
    \/ usb_init_open
    \/ usb_init_claim
    \/ main_menu
    \/ main_case1_second
    \/ main_case2_loop
    \/ main_case4_next
    \/ main_usb_close
    \/ main_return
    \/ handler_sigint
    \/ usb_log_print
    \/ usb_bulk_rot13_send
    \/ usb_bulk_rot13_read
    \/ bbio_command_sub_send
    \/ usb_descriptor_set_call
    \/ usb_descriptor_set_payload

Spec == InitMain /\ [][Next]_vars

(* ------------------------------------------------------------------ *)
(* the claims                                                           *)
(* ------------------------------------------------------------------ *)
Returned(fn) == entry = fn /\ pc = "done"
ValidIndex == indexDescriptor \in 0 .. MaxIndex
IsWrite(x, n) == x.ep = EP1OUT /\ x.len = n /\ Len(x.data) = n

\* C1: for every command, bbio_command_send issues exactly one write of
\* exactly 1 byte on the out endpoint, and that byte is the command's value.
C1_Original ==
    Returned("bbio_command_send") =>
        /\ Len(io) = 1
        /\ IsWrite(io[1], 1)
        /\ io[1].data = <<bbioCommand>>

\* the 5 bytes the frame layout asks for, for arguments in range
ExpectedSubFrame ==
    << bbioCommand, bbioSubCommand, indexDescriptor,
       sizeDescriptor % 256, sizeDescriptor \div 256 >>

SubSendOver == entry = "bbio_command_sub_send" /\ pc \in {"done", "aborted"}

SubSendTransmits ==
    /\ pc = "done"
    /\ Len(io) = 1
    /\ IsWrite(io[1], 5)
    /\ io[1].data = ExpectedSubFrame
    /\ io[1].data[4] + 256 * io[1].data[5] = sizeDescriptor

\* C2 as stated: for every command, sub-command, index in 0..16 and length in
\* 0..65535, bbio_command_sub_send transmits exactly the 5 bytes [command,
\* subCommand, index, length mod 256, length div 256], and bytes 3 and 4
\* give the length back.
C2_Original ==
    (SubSendOver /\ ValidIndex /\ sizeDescriptor \in 0 .. UINT16_MAX) => SubSendTransmits

\* C2, amended: the same for every length in 0..512, the transfer capacity.
C2_Theorem ==
    (SubSendOver /\ ValidIndex /\ sizeDescriptor \in 0 .. USB20_EP1_MAX_SIZE) => SubSendTransmits

\* the spec's example: String, index 3, length 300 gives [2, 5, 3, 0x2C, 0x01]
C2_Witness ==
    /\ Returned("bbio_command_sub_send")
    /\ sizeDescriptor = 300
    /\ io[1].data = <<BbioSetDescr, BbioSubSetDescrString, 3, 44, 1>>

\* C3: a call of bbio_command_sub_send, or of usb_descriptor_set through it,
\* with index > 16, or length > 65535, or length > 512, halts before any
\* transport write: nothing is transmitted, neither frame nor payload.
Rejected ==
    \/ indexDescriptor > MaxIndex
    \/ sizeDescriptor > UINT16_MAX
    \/ sizeDescriptor > USB20_EP1_MAX_SIZE
C3_Theorem ==
    (entry \in {"bbio_command_sub_send", "usb_descriptor_set"} /\ Rejected) =>
        /\ io = <<>>
        /\ pc \in {"bbio_command_sub_send", "usb_descriptor_set", "aborted"}

C3_Witness ==
    /\ entry = "usb_descriptor_set"
    /\ pc = "aborted"
    /\ indexDescriptor <= MaxIndex
    /\ sizeDescriptor = USB20_EP1_MAX_SIZE + 1

\* C4: usb_descriptor_set with a valid sub-command, index and payload of
\* length L issues exactly two writes on the out endpoint, the 5-byte frame
\* and then the L payload bytes verbatim, each once whatever either reports.
ValidUpload ==
    /\ entry = "usb_descriptor_set"
    /\ ValidIndex
    /\ sizeDescriptor \in 0 .. USB20_EP1_MAX_SIZE
ExpectedPayload == [i \in 1 .. sizeDescriptor |-> DescriptorByte(descriptor, i - 1)]
C4_Theorem ==
    ValidUpload =>
        /\ pc \in {"usb_descriptor_set", "bbio_command_sub_send",
                   "usb_descriptor_set_payload", "done"}
        /\ pc \in {"usb_descriptor_set", "bbio_command_sub_send"} => io = <<>>
        /\ pc = "usb_descriptor_set_payload" => Len(io) = 1
        /\ pc = "done" => Len(io) = 2
        /\ Len(io) >= 1 => IsWrite(io[1], 5) /\ io[1].data = ExpectedSubFrame
        /\ Len(io) >= 2 => IsWrite(io[2], sizeDescriptor) /\ io[2].data = ExpectedPayload

\* both writes failed, and both were made once
C4_Witness ==
    /\ ValidUpload
    /\ pc = "done"
    /\ sizeDescriptor = 300
    /\ io[1].rc = "fail"
    /\ io[2].rc = "fail"

\* C5: in usb_bulk_rot13, once the outbound write has reported failure the
\* session is over (Failed) and no read on the inbound endpoint is issued.
C5_Original ==
    (entry = "usb_bulk_rot13" /\ io # <<>> /\ io[1].rc = "fail") =>
        /\ Reads(io) = <<>>
        /\ pc # "usb_bulk_rot13_read"

\* a read that leaves a non-zero first byte in the (zero-led) buffer
NonEmpty(x) == Len(x.data) > 0 /\ x.data[1] # 0
AllEmpty(r) == \A i \in 1 .. Len(r) : ~NonEmpty(r[i])
Rot13Sent == entry = "usb_bulk_rot13" /\ io # <<>> /\ io[1].rc = "ok"
LogComplete == io # <<>> /\ io[Len(io)].rc # "dropped"

\* C6: in usb_bulk_rot13, after a successful send, exactly k reads are issued,
\* k being the position of the first read that leaves a non-zero first byte:
\* the session does not complete while every response is empty, a failed read
\* that leaves the first byte zero is followed by another read, and no read
\* follows the first non-empty response. (Of a session with more than
\* MaxReads reads the first MaxReads are looked at.)
C6_Theorem ==
    Rot13Sent =>
        LET r == Reads(io)
        IN /\ pc \in {"usb_bulk_rot13_read", "done"}
           /\ AllEmpty(SubSeq(r, 1, Len(r) - 1))
           /\ pc = "usb_bulk_rot13_read" => AllEmpty(r)
           /\ (pc = "done" /\ LogComplete) => Len(r) >= 1 /\ NonEmpty(r[Len(r)])
           /\ ~LogComplete => AllEmpty(r)

\* the spec's example: all-zero, then "abc": exactly 2 reads
C6_Witness ==
    /\ Rot13Sent
    /\ pc = "done"
    /\ Len(io) = 3
    /\ io[2].rc = "ok" /\ io[2].data = Zeros
    /\ io[3].rc = "ok" /\ io[3].data = Text

\* the buffer holds what the echo delivered, under the forced terminator
HoldsEcho ==
    BytesOf(buffer, capBuffer) = [LastWritten(io) EXCEPT ![capBuffer] = 0]

\* C7 as stated: against the echoing transport usb_bulk_rot13 terminates, and
\* at termination the buffer holds the echoed content of the last read.
C7_Original ==
    (pc = "usb_bulk_rot13_read") ~>
        (pc = "done" /\ HoldsEcho)

\* C7, amended: when the first byte sent is not zero, usb_bulk_rot13
\* terminates against the echoing transport, and at termination the buffer
\* holds the echoed content of the last read. (A first byte of zero is
\* echoed as an empty response, and the loop never ends.)
C7_Theorem ==
    (pc = "usb_bulk_rot13_read" /\ LastWritten(io)[1] # 0) ~> (pc = "done" /\ HoldsEcho)

\* terminated after failed reads, the last byte of the echo (non-zero) lost
C7_Witness ==
    /\ pc = "done"
    /\ echoAfter >= 1
    /\ Len(Reads(io)) = echoAfter + 1
    /\ io[2].rc = "fail"
    /\ LastWritten(io)[capBuffer] # 0
    /\ buffer[1] # 0

\* what one usb_log_print step did: its read, and the buffer the read and
\* the terminator left
LogStep == pc = "usb_log_print" /\ pc' # "crashed"
LogRead == io'[Len(io')]
LogBuffer ==
    [ (LogRead.data \o SubSeq(buffer, Len(LogRead.data) + 1, Len(buffer)))
        EXCEPT ![capBuffer] = 0 ]
OneLogRead ==
    /\ Len(io') = Len(io) + 1
    /\ LogRead.ep = EP_DEBUG
\* out grew by exactly the text at the start of the buffer, up to its first zero
SurfacedText ==
    /\ Len(out') = Len(out) + 1
    /\ SubSeq(out', 1, Len(out)) = out
    /\ LET t == out'[Len(out')].text
       IN /\ ~out'[Len(out')].err
          /\ Len(t) < capBuffer
          /\ \A i \in 1 .. Len(t) : t[i] = LogBuffer[i] /\ t[i] # 0
          /\ LogBuffer[Len(t) + 1] = 0
ReportedError ==
    /\ Len(out') = Len(out) + 1
    /\ SubSeq(out', 1, Len(out)) = out
    /\ out'[Len(out')].err

\* C8 as stated: usb_log_print issues exactly one read on the diagnostic
\* endpoint; if the buffer's first byte after the read is zero it prints
\* nothing and reports no error, and if it is non-zero it surfaces exactly
\* the bytes from the buffer start up to the first zero byte.
C8_Original ==
    [][LogStep => /\ OneLogRead
                  /\ IF LogBuffer[1] = 0 THEN out' = out ELSE SurfacedText]_vars

\* C8, amended: usb_log_print issues exactly one read on the diagnostic
\* endpoint; if the read succeeds, then with a zero first byte it prints
\* nothing and reports no error, and with a non-zero first byte it surfaces
\* exactly the bytes from the buffer start up to the first zero byte; if the
\* read fails it reports the error and surfaces no text, whatever the buffer
\* holds.
C8_Theorem ==
    [][LogStep => /\ OneLogRead
                  /\ IF LogRead.rc = "ok"
                     THEN IF LogBuffer[1] = 0 THEN out' = out ELSE SurfacedText
                     ELSE ReportedError]_vars

\* a read that filled the buffer: the text ends at the forced terminator
C8_Witness ==
    /\ Returned("usb_log_print")
    /\ io[1].rc = "ok"
    /\ Len(io[1].data) = capBuffer
    /\ Len(out) = 1
    /\ Len(out[1].text) = capBuffer - 1

\* a usb_log_print of main() has returned and the next statement is due
AfterPoll ==
    \/ pc = "case1_second"
    \/ pc = "menu" /\ userChoice = 1
    \/ pc = "case2_loop" /\ io # <<>>
ZeroFilled == BytesOf(buffer, capBuffer) = BytesOf(ZeroBuffer, capBuffer)
\* any text the step printed is the start of what its own read delivered
OwnBytesOnly ==
    \A k \in (Len(out) + 1) .. Len(out') :
        LET t == out'[k].text
        IN /\ Len(t) <= Len(LogRead.data)
           /\ t = SubSeq(LogRead.data, 1, Len(t))

\* C9: after every return of usb_log_print (text read, empty read, failed
\* read) all capBuffer bytes of the buffer are zero, so a poll that follows
\* another poll surfaces only bytes its own read delivered.
C9_Theorem ==
    /\ [](AfterPoll => ZeroFilled)
    /\ [][(LogStep /\ ZeroFilled) => OwnBytesOnly]_vars

\* case 1: the first poll read a text, the second read nothing and printed
\* nothing
C9_Witness ==
    /\ pc = "menu"
    /\ userChoice = 1
    /\ Len(io) = 2
    /\ io[1].rc = "ok" /\ io[1].data = Text
    /\ io[2].rc = "ok" /\ io[2].data = NoData
    /\ Len(out) = 1
    /\ out[1].text = Text

\* a step in which a transfer reported failure
FailedTransfer == io' # io /\ io' # <<>> /\ io'[Len(io')].rc = "fail"
Ended == {"exited", "crashed", "aborted"}
\* the writes made when control is at a position of menu action 4
UploadProgress ==
    /\ pc = "case4_config" => Len(io) = 2
    /\ pc = "case4_interface" => Len(io) = 4
    /\ pc = "case4_endpoint" => Len(io) = 6
    /\ (pc = "menu" /\ userChoice = 4) => Len(io) = 8
    /\ userChoice = 4 => \A i \in 1 .. Len(io) : io[i].ep = EP1OUT

\* C10: a transfer that fails never ends the process or skips what follows:
\* menu action 4 makes all eight writes of its four uploads whatever the
\* earlier writes reported, and in the log loop of menu action 2 a failed
\* poll returns to the loop, which polls again.
C10_Theorem ==
    /\ [](UploadProgress /\ (pc = "case2_loop" => ENABLED main_case2_loop))
    /\ [][FailedTransfer =>
            /\ pc' \notin Ended
            /\ (pc = "usb_log_print" /\ stack = <<"case2_loop">>) => pc' = "case2_loop"]_vars

\* all eight writes of menu action 4 failed, and all eight were made
C10_Witness ==
    /\ pc = "menu"
    /\ userChoice = 4
    /\ Len(io) = 8
    /\ \A i \in 1 .. 8 : io[i].rc = "fail"

\* the byte values the device answers with under main(); the user types none
\* of them and the uninitialised buffer holds none
AnswerBytes == {Text[i] : i \in 1 .. TextLen}
\* the bytes the echo exchange of menu action 3 put on the out endpoint
EchoSent == io[1].data
\* a poll of main() whose read succeeds and delivers nothing
EmptyPoll ==
    /\ pc = "usb_log_print"
    /\ entry = "main"
    /\ io' = Append(io, Xfer(EP_DEBUG, capBuffer, NoData, "ok"))

\* C11 as stated: across any sequence of menu actions the buffer is zeroed
\* between exchanges, so an echo send never transmits a byte of an earlier
\* response, and a log poll whose read is empty prints no byte of an
\* earlier response.
C11_Original ==
    /\ []((entry = "main" /\ userChoice = 3 /\ io # <<>>) =>
            \A i \in 1 .. Len(EchoSent) : EchoSent[i] \notin AnswerBytes)
    /\ [][EmptyPoll => \A k \in (Len(out) + 1) .. Len(out') :
                          \A i \in 1 .. Len(out'[k].text) :
                              out'[k].text[i] \notin AnswerBytes]_vars

\* the descriptor kinds of a full set, in the order asked for
FullSet == << BbioSubSetDescrDevice, BbioSubSetDescrConfig,
             BbioSubSetDescrInterface, BbioSubSetDescrEndpoint >>
\* the k-th write of a full set: the frame of a kind, then its payload
PlannedWrite(k) ==
    LET sub  == FullSet[(k + 1) \div 2]
        size == DescriptorSize(sub)
    IN IF k % 2 = 1
       THEN [ep |-> EP1OUT, len |-> 5,
             data |-> <<BbioSetDescr, sub, 0, size % 256, size \div 256>>]
       ELSE [ep |-> EP1OUT, len |-> size, data |-> Payload(sub, size)]
\* a transfer without its result
Issued(x) == [ep |-> x.ep, len |-> x.len, data |-> x.data]

\* C12: the transfers of menu action 4 are, in order, frame(Device),
\* payload(Device), frame(Config), payload(Config), frame(Interface),
\* payload(Interface), frame(Endpoint), payload(Endpoint), all writes on the
\* out endpoint with nothing between them, and the action ends with all
\* eight made.
C12_Theorem ==
    (entry = "main" /\ userChoice = 4) =>
        /\ Len(io) <= 8
        /\ \A k \in 1 .. Len(io) : Issued(io[k]) = PlannedWrite(k)
        /\ pc = "menu" => Len(io) = 8

\* menu action 4 is over and every one of its writes was accepted
C12_Witness ==
    /\ pc = "menu"
    /\ userChoice = 4
    /\ Len(io) = 8
    /\ \A k \in 1 .. 8 : io[k].rc = "ok"
    /\ Issued(io[7]) = PlannedWrite(7)

\* a step of usb_log_print or of the loop of usb_bulk_rot13 whose read is
\* in the history
ReadStep ==
    /\ pc \in {"usb_log_print", "usb_bulk_rot13_read"}
    /\ Len(io') = Len(io) + 1
    /\ io'[Len(io')].rc \in {"ok", "fail"}
\* the buffer as the read of the step left it, before the terminator
AsRead == Received(buffer, io'[Len(io')].data)
\* the texts the step printed
NewTexts == {out'[k].text : k \in {j \in (Len(out) + 1) .. Len(out') : ~out'[j].err}}

\* C13: after every read of usb_log_print and usb_bulk_rot13, successful
\* or failed, the byte at index capBuffer-1 is zero before the buffer is
\* tested or printed: the loop of usb_bulk_rot13 goes on with that byte
\* zero, and a text printed by either function is the bytes the read left
\* at the buffer start up to the first zero byte, ending at the latest
\* with the byte before that final one.
C13_Theorem ==
    [][/\ (pc = "usb_bulk_rot13_read" /\ pc' # "crashed") => buffer'[capBuffer] = 0
       /\ ReadStep =>
             \A t \in NewTexts :
                /\ Len(t) <= capBuffer - 1
                /\ t = BytesOf(AsRead, Len(t))
                /\ \A i \in 1 .. Len(t) : t[i] # 0
                /\ Len(t) < capBuffer - 1 => AsRead[Len(t) + 1] = 0]_vars

\* usb_bulk_rot13 has returned after a failed read and then a read that
\* filled all capBuffer bytes with non-zero bytes: it printed capBuffer-1
C13_Witness ==
    /\ Returned("usb_bulk_rot13")
    /\ Len(io) = 3
    /\ io[2].rc = "fail"
    /\ io[3].rc = "ok"
    /\ Len(io[3].data) = capBuffer
    /\ \E k \in 1 .. Len(out) : ~out[k].err /\ Len(out[k].text) = capBuffer - 1
    /\ buffer[capBuffer] = 0

\* the functions that transmit a sub-command frame, as their first transfer
FrameSenders == {"bbio_command_sub_send", "usb_descriptor_set"}
\* the command byte of the sub-command frame transmitted
FrameCommand == io[1].data[1]

\* C14 as stated: every 5-byte sub-command frame that reaches the transport
\* has its command byte equal to SetDescriptor (2), whatever is called.
C14_Original ==
    (entry \in FrameSenders /\ io # <<>>) => FrameCommand = BbioSetDescr

\* C14: every sub-command frame transmitted by usb_descriptor_set has its
\* command byte equal to SetDescriptor (2), for every sub-command, index
\* and size it is called with.
C14_Theorem ==
    (entry = "usb_descriptor_set" /\ io # <<>>) =>
        /\ IsWrite(io[1], 5)
        /\ FrameCommand = BbioSetDescr

\* usb_descriptor_set has returned after sending the frame of a String
\* descriptor and its payload
C14_Witness ==
    /\ Returned("usb_descriptor_set")
    /\ Len(io) = 2
    /\ io[1].rc = "ok"
    /\ io[1].data[2] = BbioSubSetDescrString
    /\ FrameCommand = BbioSetDescr

\* the 16-bit length a frame carries in its bytes 3 and 4
DecodedLength(frame) == frame[4] + 256 * frame[5]

\* C15 as stated: for every integer index and size passed to
\* usb_descriptor_set, negative ones included, either nothing is transmitted
\* or the frame is well-formed: its index byte is in 0..16, the length it
\* carries is at most 512 and is the number of payload bytes requested by
\* the write that follows.
C15_Original ==
    (entry = "usb_descriptor_set" /\ io # <<>>) =>
        /\ io[1].data[3] \in 0 .. MaxIndex
        /\ DecodedLength(io[1].data) <= USB20_EP1_MAX_SIZE
        /\ Len(io) >= 2 => io[2].len = DecodedLength(io[1].data)

\* C16 as stated: every read and write the host issues, in every menu
\* action, the log polls included, asks for at most the transfer buffer
\* capacity shared with the device (512 bytes).
C16_Original ==
    entry = "main" => \A k \in 1 .. Len(io) : io[k].len <= USB20_EP1_MAX_SIZE

\* a step that issues a bulk transfer
TransferStep == io' # io /\ io' # <<>>
\* the transport is open and its interface is claimed
TransportReady ==
    /\ libusb = "init"
    /\ g_deviceHandle = "open"
    /\ claimed # {}

\* C17 as stated: no bulk transfer is issued unless the transport was
\* opened and its interface claimed; if usb_init_verbose fails at any stage
\* no menu action reads or writes on the device handle.
C17_Original == [][TransferStep => TransportReady]_vars

\* a step that runs usb_close(): release-interface, close-handle, library-exit
Teardown == handler_sigint \/ main_usb_close
\* positions at which usb_close() has run
TornDown == {"main_return", "exited"}

\* C18 as stated: with SIGINT arriving at any point, the teardown runs at
\* most once and only on a handle that was opened and is not yet closed,
\* and no transfer is issued after it.
C18_Original ==
    /\ [][Teardown => (g_deviceHandle = "open" /\ libusb = "init")]_vars
    /\ [][(pc \in TornDown) => (io' = io)]_vars

\* C19 as stated: the interface usb_close releases is the interface
\* usb_init_verbose claimed: when usb_close runs after a successful init it
\* releases an interface that is claimed, and none stays claimed after it.
C19_Original ==
    [][(Teardown /\ TransportReady) => (INTERFACE \in claimed /\ claimed' = {})]_vars


====
